---- MODULE Spec2Model ----
(***************************************************************************)
(* Model of the cylindrical geometry engine CylindricalArray               *)
(* (src/modules/cylinder.py).                                              *)
(*                                                                         *)
(* Sequences of the program (python lists, numpy arrays) are functions     *)
(* over 0..len-1, so that every index of the model is the index of the     *)
(* source.  Angles are exact multiples of 1/Turn of a full revolution:     *)
(* 2*pi is Turn units, so phi / (2*pi) is phi / Turn.  Sparse matrices are *)
(* the sets of their non-zero cells <<row, column>>.                       *)
(*                                                                         *)
(* round() breaks a tie as the interpreter does: away from zero under      *)
(* Python 2, to the even neighbour under Python 3; py_round is the         *)
(* interpreter the array is built and queried under.  pc is "new" before   *)
(* __init__ has run, "built" when it has returned, "failed" when it has    *)
(* raised (error names the exception).  call is the frame of the query     *)
(* that is about to return to the single-threaded caller.                  *)
(***************************************************************************)
EXTENDS Integers, Sequences, FiniteSets, TLC

(* ---------------- bounds of the model ---------------- *)
MaxLayers == 3
MaxN == 3
MaxShift == 3
MaxOddN == 2

(* ---------------- units ---------------- *)
RECURSIVE Gcd(_, _)
Gcd(a, b) == IF b = 0 THEN a ELSE Gcd(b, a % b)

RECURSIVE LcmUpTo(_)
LcmUpTo(k) == IF k <= 1 THEN 1 ELSE LET m == LcmUpTo(k - 1) IN (m * k) \div Gcd(m, k)

\* The spacing of the floating-point numbers around one revolution, in angle
\* units: a float of magnitude Ulp or more is a multiple of Ulp, a smaller one
\* is kept as it is (floats are denser near zero).
Ulp == 4

\* One revolution (2 * math.pi) in angle units: every layer size of the model
\* (1..MaxN, and the 4 and 8 of the two concrete scenarios) divides it, and
\* half a step of every layer is a whole number of Ulp.
Turn == 8 * LcmUpTo(MaxN) * Ulp

\* Fractions of a revolution handed to rotate_wire are FracNum / FracDen.
FracDen == 4

VARIABLES preset, n_by_layer, r_by_layer, phi0_by_layer, py_round, pc, error,
          n_points, first_point, point_lookup, point_rhos, point_phis,
          point_x, point_y, point_pol, point_dists, point_neighbours,
          lr_neighbours, call

vars == <<preset, n_by_layer, r_by_layer, phi0_by_layer, py_round, pc, error,
          n_points, first_point, point_lookup, point_rhos, point_phis,
          point_x, point_y, point_pol, point_dists, point_neighbours,
          lr_neighbours, call>>

inputs == <<preset, n_by_layer, r_by_layer, phi0_by_layer, py_round>>

tables == <<n_points, first_point, point_lookup, point_rhos, point_phis,
            point_x, point_y, point_pol, point_dists, point_neighbours,
            lr_neighbours>>

(* ---------------- python / numpy primitives ---------------- *)
len(s) == Cardinality(DOMAIN s)

RECURSIVE SumTo(_, _)
\* sum(s[:k])
SumTo(s, k) == IF k <= 0 THEN 0 ELSE SumTo(s, k - 1) + s[k - 1]

sum(s) == SumTo(s, len(s))

RECURSIVE MaxTo(_, _)
MaxTo(s, k) == IF k = 1 THEN s[0]
               ELSE LET m == MaxTo(s, k - 1) IN IF s[k - 1] > m THEN s[k - 1] ELSE m

max(s) == MaxTo(s, len(s))

\* round(num / den) for den > 0.  Python 2 rounds a tie away from zero,
\* Python 3 (and numpy) rounds a tie to the even neighbour.
round(mode, num, den) ==
    LET f == num \div den
        rem == num % den
    IN  IF 2 * rem < den THEN f
        ELSE IF 2 * rem > den THEN f + 1
        ELSE IF mode = "half_even" THEN (IF f % 2 = 0 THEN f ELSE f + 1)
        ELSE (IF num >= 0 THEN f + 1 ELSE f)

\* the float nearest to x (a tie goes to the even multiple of Ulp)
Fl(x) ==
    IF x % Ulp = 0 \/ (-Ulp < x /\ x < Ulp) THEN x
    ELSE LET r == x % Ulp
             low == x - r
         IN  IF 2 * r < Ulp THEN low
             ELSE IF 2 * r > Ulp THEN low + Ulp
             ELSE IF (low \div Ulp) % 2 = 0 THEN low ELSE low + Ulp

\* x % (2 * math.pi) of numpy and of python floats: the exact C remainder, and
\* when that is negative one revolution added to it, rounded to a float
NpMod(x) ==
    LET m == IF x >= 0 THEN x % Turn ELSE -((-x) % Turn)
    IN  IF m < 0 THEN Fl(m + Turn) ELSE m

\* distance on the circle between two stored angles
ArcBetween(x, y) ==
    IF (x - y) % Turn <= (y - x) % Turn THEN (x - y) % Turn ELSE (y - x) % Turn

\* arr[i] of a numpy array (or a row of a scipy matrix) of length size:
\* a negative index counts from the end, anything else out of range raises.
NpInRange(size, i) == -size <= i /\ i < size
NpIndex(size, i) == IF i < 0 THEN i + size ELSE i

(* ---------------- CylindricalArray.__init__ : derived tables ---------------- *)
Layers == DOMAIN n_by_layer

\* self.n_points = sum(self.n_by_layer)
NPoints == sum(n_by_layer)

Points == 0 .. NPoints - 1

\* first_point[i] = sum(self.n_by_layer[:i])
_get_first_point == [i \in Layers |-> SumTo(n_by_layer, i)]

\* 2 * math.pi / np.asarray(self.n_by_layer); numpy divides by zero to inf
_prepare_dphi_by_layer ==
    [lay \in Layers |-> IF n_by_layer[lay] = 0 THEN "inf" ELSE Turn \div n_by_layer[lay]]

RECURSIVE FillLookup(_, _, _, _)
\* the two nested loops over layer_id and cell_id, point_id counting up
FillLookup(lookup, layer_id, cell_id, point_id) ==
    IF layer_id >= len(n_by_layer) THEN lookup
    ELSE IF cell_id >= n_by_layer[layer_id]
         THEN FillLookup(lookup, layer_id + 1, 0, point_id)
         ELSE FillLookup([lookup EXCEPT ![<<layer_id, cell_id>>] = point_id],
                         layer_id, cell_id + 1, point_id + 1)

\* a lookup filled without "lookup[:, :] = -1": the padding stays 0
_prepare_points_lookup_zero_padded ==
    FillLookup([c \in Layers \X (0 .. max(n_by_layer) - 1) |-> 0], 0, 0, 0)

\* lookup = zeros([len(n_by_layer), max(n_by_layer)]); lookup[:, :] = -1; fill
_prepare_points_lookup ==
    FillLookup([c \in Layers \X (0 .. max(n_by_layer) - 1) |-> -1], 0, 0, 0)

RECURSIVE FillRho(_, _)
\* radii[point_0[lay]:point_0[lay] + size] = self.r_by_layer[lay], layer by layer
FillRho(radii, lay) ==
    IF lay >= len(n_by_layer) THEN radii
    ELSE FillRho([i \in DOMAIN radii |->
                     IF _get_first_point[lay] <= i
                        /\ i < _get_first_point[lay] + n_by_layer[lay]
                     THEN r_by_layer[lay] ELSE radii[i]],
                 lay + 1)

_prepare_point_rho == FillRho([i \in Points |-> 0], 0)

\* the layer and the index in the layer that the loops of the builders are at
\* when they write point i
LoopLayer(i) ==
    CHOOSE lay \in Layers :
        _get_first_point[lay] <= i /\ i < _get_first_point[lay] + n_by_layer[lay]

\* angles[point_0[lay] + point] = phi0[lay] + dphi[lay] * point; angles %= 2 pi
_prepare_point_phi ==
    [i \in Points |->
        LET lay == LoopLayer(i)
            point == i - _get_first_point[lay]
        IN  NpMod(Fl(phi0_by_layer[lay] + _prepare_dphi_by_layer[lay] * point))]

\* polarity[point_0[lay]:point_0[lay] + size] = lay % 2
_prepare_polarity == [i \in Points |-> LoopLayer(i) % 2]

\* x = rho * cos(phi) and y = rho * sin(phi) of every point, kept as the radius
\* and the angle they are computed from
_prepare_point_cartesian ==
    [x_coor |-> [p \in Points |->
                    [rho |-> _prepare_point_rho[p], cos_of |-> _prepare_point_phi[p]]],
     y_coor |-> [p \in Points |->
                    [rho |-> _prepare_point_rho[p], sin_of |-> _prepare_point_phi[p]]]]

\* the square matrix of distances between points: zero on the diagonal, and
\* elsewhere the distance fixed by the two radii and the arc between the two
\* angles, kept as these
_prepare_point_distances ==
    [pq \in Points \X Points |->
        IF pq[1] = pq[2] THEN 0
        ELSE [rhos |-> {_prepare_point_rho[pq[1]], _prepare_point_rho[pq[2]]},
              arc |-> ArcBetween(_prepare_point_phi[pq[1]],
                                 _prepare_point_phi[pq[2]])]]

(* ---------------- _prepare_point_neighbours ---------------- *)
\* AdjacentLayers with the last branch lost: an interior layer is given its
\* inner neighbour only
AdjacentLayersInnerOnly(lay) ==
    IF lay = 0 THEN <<lay + 1>> ELSE <<lay - 1>>

\* adjacent_layers of the layer loop, in the order the inner loop visits them
AdjacentLayers(lay) ==
    IF lay = 0 THEN <<lay + 1>>
    ELSE IF lay = len(n_by_layer) - 1 THEN <<lay - 1>>
    ELSE <<lay - 1, lay + 1>>

AdjacentSet(lay) == {AdjacentLayers(lay)[k] : k \in DOMAIN AdjacentLayers(lay)}

\* NearestIndex truncating (int()) where the code rounds
NearestIndexTruncated(phi, a_lay) ==
    ((Fl(phi - phi0_by_layer[a_lay]) * n_by_layer[a_lay]) \div Turn) % n_by_layer[a_lay]

\* a_point after "a_point %= a_n_points": the index, in layer a_lay, of the
\* point closest in phi to the point whose stored angle is phi
NearestIndex(phi, a_lay) ==
    round(py_round, Fl(phi - phi0_by_layer[a_lay]) * n_by_layer[a_lay], Turn)
        % n_by_layer[a_lay]

\* the three cells neigh[point, a_point], neigh[point, nxt_a_point],
\* neigh[point, prv_a_point] written for one point and one adjacent layer
CrossCells(point, a_lay) ==
    LET a_n_points == n_by_layer[a_lay]
        a_first == _get_first_point[a_lay]
        a_point == NearestIndex(_prepare_point_phi[point], a_lay)
        nxt_a_point == (a_point + 1) % a_n_points
        prv_a_point == (a_point - 1) % a_n_points
    IN  {<<point, a_point + a_first>>,
         <<point, nxt_a_point + a_first>>,
         <<point, prv_a_point + a_first>>}

\* RingCells without the reciprocal cell neigh[nxt_point, point]
RingCellsOneWay(lay, point_index) ==
    LET point == point_index + _get_first_point[lay]
        nxt_point == ((point_index + 1) % n_by_layer[lay]) + _get_first_point[lay]
    IN  {<<point, nxt_point>>}

\* the four cells written for one point on its own layer (both matrices)
RingCells(lay, point_index) ==
    LET point == point_index + _get_first_point[lay]
        nxt_point == ((point_index + 1) % n_by_layer[lay]) + _get_first_point[lay]
    IN  {<<nxt_point, point>>, <<point, nxt_point>>}

\* the (lay, point_index) pairs that the two nested loops visit
LoopCells == {c \in Layers \X (0 .. max(n_by_layer) - 1) : c[2] < n_by_layer[c[1]]}

\* an lr_neigh that is also written in the loop over the adjacent layers
LrNeighWithCross ==
    UNION {RingCells(c[1], c[2])
           \cup UNION {CrossCells(c[2] + _get_first_point[c[1]], a_lay) :
                          a_lay \in AdjacentSet(c[1])} :
           c \in LoopCells}

\* lr_neigh: the cells written on the point's own layer, nothing else
LrNeigh == UNION {RingCells(c[1], c[2]) : c \in LoopCells}

\* neigh: the cells of the own layer and those of every adjacent layer
Neigh ==
    UNION {RingCells(c[1], c[2])
           \cup UNION {CrossCells(c[2] + _get_first_point[c[1]], a_lay) :
                          a_lay \in AdjacentSet(c[1])} :
           c \in LoopCells}

(* ---------------- where construction raises ---------------- *)
\* _prepare_point_rho reads r_by_layer[lay] for every layer
RhoRaises == \E lay \in Layers : lay \notin DOMAIN r_by_layer

\* _prepare_point_phi reads phi0_by_layer[lay] for every layer that has points
PhiRaises == \E lay \in Layers : n_by_layer[lay] > 0 /\ lay \notin DOMAIN phi0_by_layer

\* what the body of "for a_lay in adjacent_layers" raises for one adjacent
\* layer: n_by_layer[a_lay], phi0_by_layer[a_lay], then a_point %= a_n_points
CrossError(a_lay) ==
    IF a_lay \notin Layers THEN "IndexError"
    ELSE IF a_lay \notin DOMAIN phi0_by_layer THEN "IndexError"
    ELSE IF n_by_layer[a_lay] = 0 THEN "ZeroDivisionError"
    ELSE "none"

\* the layers whose point loop runs and meets an adjacent layer that raises
RaisingLayers ==
    {lay \in Layers : n_by_layer[lay] > 0
                      /\ \E a_lay \in AdjacentSet(lay) : CrossError(a_lay) # "none"}

\* the exception that ends _prepare_point_neighbours, "none" when it returns
NeighboursError ==
    IF RaisingLayers = {} THEN "none"
    ELSE LET lay == CHOOSE l \in RaisingLayers : \A m \in RaisingLayers : l <= m
             adj == AdjacentLayers(lay)
             k == CHOOSE j \in DOMAIN adj :
                      /\ CrossError(adj[j]) # "none"
                      /\ \A i \in DOMAIN adj : CrossError(adj[i]) # "none" => j <= i
         IN  CrossError(adj[k])

\* the exception that ends __init__, "none" when the object is constructed
InitError ==
    IF RhoRaises \/ PhiRaises THEN "IndexError" ELSE NeighboursError

(* ---------------- queries ---------------- *)
Return(v) == [raised |-> "none", value |-> v]
Raise(e) == [raised |-> e, value |-> 0]

\* rho = self.point_rhos[point_id]; int(np.where(self.r_by_layer == rho)[0])
get_layer(point_id) ==
    IF ~NpInRange(n_points, point_id) THEN Raise("IndexError")
    ELSE LET rho == point_rhos[NpIndex(n_points, point_id)]
             where == {l \in DOMAIN r_by_layer : r_by_layer[l] = rho}
         IN  IF Cardinality(where) # 1 THEN Raise("TypeError")
             ELSE Return(CHOOSE l \in where : TRUE)

\* get_index forgetting to subtract the first point of the layer
get_index_no_offset(point_id) ==
    LET layer == get_layer(point_id)
    IN  IF layer.raised # "none" THEN layer ELSE Return(point_id)

\* index = point_id - self.first_point[layer]
get_index(point_id) ==
    LET layer == get_layer(point_id)
    IN  IF layer.raised # "none" THEN layer
        ELSE IF ~NpInRange(len(first_point), layer.value) THEN Raise("IndexError")
        ELSE Return(point_id - first_point[layer.value])

\* shift_wire reducing the index modulo the width of the padded lookup table
\* instead of the size of the layer
shift_wire_mod_width(point_id, shift_size) ==
    LET layer == get_layer(point_id)
        index == get_index(point_id)
    IN  IF layer.raised # "none" THEN layer
        ELSE IF index.raised # "none" THEN index
        ELSE Return(point_lookup[<<layer.value,
                        (index.value + shift_size) % max(n_by_layer)>>])

\* index += shift_size; index %= n_by_layer[layer]; point_lookup[layer, index]
shift_wire(point_id, shift_size) ==
    LET layer == get_layer(point_id)
        index == get_index(point_id)
    IN  IF layer.raised # "none" THEN layer
        ELSE IF index.raised # "none" THEN index
        ELSE Return(point_lookup[<<layer.value,
                        (index.value + shift_size) % n_by_layer[layer.value]>>])

\* rotate_wire with int(shift_frac * n) where the code has int(round(...))
rotate_wire_truncated(point_id, frac_num) ==
    LET layer == get_layer(point_id)
        index == get_index(point_id)
    IN  IF layer.raised # "none" THEN layer
        ELSE IF index.raised # "none" THEN index
        ELSE LET n_points_in_layer == n_by_layer[layer.value]
                 shift_size == (frac_num * n_points_in_layer) \div FracDen
             IN  Return(point_lookup[<<layer.value,
                            (index.value + shift_size) % n_points_in_layer>>])

\* shift_size = int(round(shift_frac * n_points_in_layer)), then as shift_wire;
\* shift_frac is frac_num / FracDen
rotate_wire(point_id, frac_num) ==
    LET layer == get_layer(point_id)
        index == get_index(point_id)
    IN  IF layer.raised # "none" THEN layer
        ELSE IF index.raised # "none" THEN index
        ELSE LET n_points_in_layer == n_by_layer[layer.value]
                 shift_size == round(py_round, frac_num * n_points_in_layer, FracDen)
             IN  Return(point_lookup[<<layer.value,
                            (index.value + shift_size) % n_points_in_layer>>])

\* find(self.point_neighbours[point_id, :])[1]: the columns of the row
get_neighbours(point_id) ==
    IF ~NpInRange(n_points, point_id) THEN Raise("IndexError")
    ELSE Return({c[2] : c \in {d \in point_neighbours : d[1] = NpIndex(n_points, point_id)}})

get_points_rhos_and_phis == <<point_rhos, point_phis>>

get_points_xs_and_ys == <<point_x, point_y>>

(* ---------------- the layer descriptions handed to the constructor ---------------- *)
Zeros(k) == [i \in 0 .. k - 1 |-> 0]

\* phi0 tables: no offset at all, or a small negative offset and an offset of
\* more than a revolution taking turns from layer to layer
PhiChoices(k) ==
    {Zeros(k),
     [i \in 0 .. k - 1 |-> IF i % 2 = 0 THEN -Ulp ELSE Turn + 2 * Ulp],
     [i \in 0 .. k - 1 |-> IF i % 2 = 0 THEN Turn + 2 * Ulp ELSE -Ulp]}

\* fractions of a revolution (numerators over FracDen) handed to rotate_wire:
\* some of [0, 1], a negative one and one above a full revolution
FracSet == {-1, 0, 1, 2, 3, FracDen, FracDen + 1}

\* radii sorted and strictly increasing, as the constructor's docstring asks
Increasing(k) == [i \in 0 .. k - 1 |-> i + 1]

\* radii the constructor does not ask for but accepts or trips over: the two
\* innermost layers on one radius, radii that are not positive, decreasing
\* radii, one radius too many, one too few
OddRadii(k) ==
    {[i \in 0 .. k - 1 |-> IF i = 0 THEN 1 ELSE i],
     [i \in 0 .. k - 1 |-> i - 1],
     [i \in 0 .. k - 1 |-> k - i],
     Increasing(k + 1),
     Increasing(k - 1)}

\* a python list as the model's sequence indexed from 0
List(seq) == [i \in 0 .. Len(seq) - 1 |-> seq[i + 1]]

\* CyDet.__init__: the wires of each layer
cydet_wires ==
    List(<<198, 204, 210, 216, 222, 228, 234, 240, 246,
           252, 258, 264, 270, 276, 282, 288, 294, 300>>)

\* CyDet.__init__: the radius of each layer, in tenths
cydet_radii ==
    List(<<530, 546, 562, 578, 594, 610, 626, 642, 658,
           674, 690, 706, 722, 738, 754, 770, 786, 802>>)

\* CyDet.__init__: the phi0 table of each branch of "if use_default_phis", in
\* millionths of a radian
cydet_phi0(use_default_phis) ==
    IF use_default_phis
    THEN List(<<15867, 0, 0, 0, 0, 14960,
                14960, 0, 0, 0, 0, 0,
                0, 0, 0, 0, 0, 0>>)
    ELSE List(<<0, 15867, 15400, 0, 14544,
                0, 0, 13426, 0, 12771,
                0, 12177, 0, 11636, 0,
                0, 0, 10686, 0, 10267>>)

\* CyDet.__init__ up to its call of the engine: the description it hands over
CyDet(use_default_phis) ==
    /\ preset = IF use_default_phis THEN "CyDet(True)" ELSE "CyDet(False)"
    /\ n_by_layer = cydet_wires
    /\ r_by_layer = cydet_radii
    /\ phi0_by_layer = cydet_phi0(use_default_phis)

NoCall == [op |-> "none", point_id |-> 0, arg |-> 0, raised |-> "none",
           result |-> 0, neighs |-> {}, arrays |-> <<>>]

\* layers of 1..MaxN points on increasing radii, any phi0
WellFormed(k) ==
    /\ n_by_layer \in [0 .. k - 1 -> 1 .. MaxN]
    /\ r_by_layer = Increasing(k)
    /\ phi0_by_layer \in PhiChoices(k)

\* layers of one size on increasing radii, every phi0 a negative offset of
\* less than half the float spacing around one revolution (such as -1e-17)
TinyOffset(k) ==
    /\ n_by_layer \in {[i \in 0 .. k - 1 |-> m] : m \in 1 .. MaxN}
    /\ r_by_layer = Increasing(k)
    /\ phi0_by_layer = [i \in 0 .. k - 1 |-> -1]

\* layers of 0..MaxOddN points, radii and phi0 tables of any kind and length
IllFormed(k) ==
    /\ n_by_layer \in {n \in [0 .. k - 1 -> 0 .. MaxOddN] : sum(n) > 0}
    /\ \/ /\ r_by_layer \in OddRadii(k) \cup {Increasing(k)}
          /\ phi0_by_layer = Zeros(k)
       \/ /\ r_by_layer = Increasing(k)
          /\ phi0_by_layer \in {Zeros(k - 1), Zeros(k + 1)}

\* the two concrete scenarios: one layer n=4 r=10 phi0=0; n=[4,8] r=[10,20]
Scenario ==
    \/ /\ n_by_layer = [i \in {0} |-> 4]
       /\ r_by_layer = [i \in {0} |-> 10]
       /\ phi0_by_layer = [i \in {0} |-> 0]
    \/ /\ n_by_layer = [i \in {0, 1} |-> IF i = 0 THEN 4 ELSE 8]
       /\ r_by_layer = [i \in {0, 1} |-> IF i = 0 THEN 10 ELSE 20]
       /\ phi0_by_layer = [i \in {0, 1} |-> 0]

Init ==
    /\ py_round \in {"half_even", "half_away"}
    /\ \/ /\ preset = "none"
          /\ \/ \E k \in 1 .. MaxLayers :
                   WellFormed(k) \/ TinyOffset(k) \/ IllFormed(k)
             \/ Scenario
       \/ \E use_default_phis \in BOOLEAN : CyDet(use_default_phis)
    /\ pc = "new"
    /\ error = "none"
    /\ n_points = 0
    /\ first_point = <<>>
    /\ point_lookup = <<>>
    /\ point_rhos = <<>>
    /\ point_phis = <<>>
    /\ point_x = <<>>
    /\ point_y = <<>>
    /\ point_pol = <<>>
    /\ point_dists = <<>>
    /\ point_neighbours = {}
    /\ lr_neighbours = {}
    /\ call = NoCall

(* ---------------- actions ---------------- *)
\* CylindricalArray.__init__: every table is built, or an exception leaves
\* the caller without an object.  The tables of the 4482-wire detector preset
\* are not built: of the preset only the description it hands over is kept.
Construct ==
    /\ pc = "new"
    /\ preset = "none"
    /\ IF InitError # "none"
       THEN /\ pc' = "failed"
            /\ error' = InitError
            /\ UNCHANGED tables
       ELSE /\ pc' = "built"
            /\ error' = "none"
            /\ n_points' = NPoints
            /\ first_point' = _get_first_point
            /\ point_lookup' = _prepare_points_lookup
            /\ point_rhos' = _prepare_point_rho
            /\ point_phis' = _prepare_point_phi
            /\ point_x' = _prepare_point_cartesian.x_coor
            /\ point_y' = _prepare_point_cartesian.y_coor
            /\ point_pol' = _prepare_polarity
            /\ point_dists' = _prepare_point_distances
            /\ point_neighbours' = Neigh
            /\ lr_neighbours' = LrNeigh
    /\ UNCHANGED <<inputs, call>>

\* the point ids the callers try: every id of the array, the first id past the
\* end, and the negative ids -1, -n_points and -n_points - 1
QueryIds == (0 .. n_points) \cup {-1, -n_points, -n_points - 1}

\* the frame of a query about to return: its arguments and what it returns
\* or raises.  The caller is single-threaded, one query runs at a time.
Called(op, point_id, arg, r) ==
    [op |-> op, point_id |-> point_id, arg |-> arg, raised |-> r.raised,
     result |-> r.value, neighs |-> {}, arrays |-> <<>>]

GetLayer ==
    /\ pc = "built"
    /\ call = NoCall
    /\ \E point_id \in QueryIds :
          call' = Called("get_layer", point_id, 0, get_layer(point_id))
    /\ UNCHANGED <<inputs, pc, error, tables>>

GetIndex ==
    /\ pc = "built"
    /\ call = NoCall
    /\ \E point_id \in QueryIds :
          call' = Called("get_index", point_id, 0, get_index(point_id))
    /\ UNCHANGED <<inputs, pc, error, tables>>

GetNeighbours ==
    /\ pc = "built"
    /\ call = NoCall
    /\ \E point_id \in QueryIds :
          LET r == get_neighbours(point_id)
          IN  call' = [op |-> "get_neighbours", point_id |-> point_id, arg |-> 0,
                       raised |-> r.raised, result |-> 0,
                       neighs |-> IF r.raised = "none" THEN r.value ELSE {},
                       arrays |-> <<>>]
    /\ UNCHANGED <<inputs, pc, error, tables>>

\* get_points_rhos_and_phis hands out the two stored arrays
GetPointsRhosAndPhis ==
    /\ pc = "built"
    /\ call = NoCall
    /\ call' = [NoCall EXCEPT !.op = "get_points_rhos_and_phis",
                              !.arrays = get_points_rhos_and_phis]
    /\ UNCHANGED <<inputs, pc, error, tables>>

\* get_points_xs_and_ys hands out the two stored arrays
GetPointsXsAndYs ==
    /\ pc = "built"
    /\ call = NoCall
    /\ call' = [NoCall EXCEPT !.op = "get_points_xs_and_ys",
                              !.arrays = get_points_xs_and_ys]
    /\ UNCHANGED <<inputs, pc, error, tables>>

\* a shift_wire whose "index += shift_size" works in place on the entry of
\* first_point it was computed from
ShiftWireInPlace ==
    /\ pc = "built"
    /\ call = NoCall
    /\ \E point_id \in QueryIds, shift_size \in -MaxShift .. MaxShift :
          LET r == shift_wire(point_id, shift_size)
          IN  /\ call' = Called("shift_wire", point_id, shift_size, r)
              /\ first_point' =
                    IF r.raised = "none"
                    THEN [first_point EXCEPT ![get_layer(point_id).value] =
                              @ + shift_size]
                    ELSE first_point
    /\ UNCHANGED <<inputs, pc, error, n_points, point_lookup, point_rhos,
                   point_phis, point_x, point_y, point_pol, point_dists,
                   point_neighbours, lr_neighbours>>

ShiftWire ==
    /\ pc = "built"
    /\ call = NoCall
    /\ \E point_id \in QueryIds, shift_size \in -MaxShift .. MaxShift :
          call' = Called("shift_wire", point_id, shift_size,
                         shift_wire(point_id, shift_size))
    /\ UNCHANGED <<inputs, pc, error, tables>>

\* a rotate_wire that forgets "index %= n_points_in_layer" and reads the
\* lookup row at the shifted index as numpy does
RotateWireNoModulo ==
    /\ pc = "built"
    /\ call = NoCall
    /\ \E point_id \in QueryIds, frac_num \in FracSet :
          LET r == rotate_wire(point_id, 0)
              width == max(n_by_layer)
              index == get_index(point_id).value
                       + round(py_round,
                               frac_num * n_by_layer[get_layer(point_id).value],
                               FracDen)
          IN  call' = Called("rotate_wire", point_id, frac_num,
                             IF r.raised # "none" THEN r
                             ELSE IF ~NpInRange(width, index) THEN Raise("IndexError")
                             ELSE Return(point_lookup[<<get_layer(point_id).value,
                                                       NpIndex(width, index)>>]))
    /\ UNCHANGED <<inputs, pc, error, tables>>

RotateWire ==
    /\ pc = "built"
    /\ call = NoCall
    /\ \E point_id \in QueryIds, frac_num \in FracSet :
          call' = Called("rotate_wire", point_id, frac_num,
                         rotate_wire(point_id, frac_num))
    /\ UNCHANGED <<inputs, pc, error, tables>>

\* the return statement of a query: the single-threaded caller takes the
\* result (or the exception) and is free to make its next call
ReturnToCaller ==
    /\ pc = "built"
    /\ call # NoCall
    /\ call' = NoCall
    /\ UNCHANGED <<inputs, pc, error, tables>>

Next == Construct \/ GetLayer \/ GetIndex \/ GetNeighbours
        \/ GetPointsRhosAndPhis \/ GetPointsXsAndYs \/ ShiftWire \/ RotateWire
        \/ ReturnToCaller

Spec == Init /\ [][Next]_vars

(* ======================= the claims ======================= *)
\* the layer whose block of ids holds point q (ids are handed out layer by layer)
LayerOfId(q) ==
    CHOOSE l \in DOMAIN first_point :
        first_point[l] <= q /\ q < first_point[l] + n_by_layer[l]

DistinctRadii ==
    \A l, m \in DOMAIN r_by_layer : l # m => r_by_layer[l] # r_by_layer[m]

EqualLengths ==
    len(n_by_layer) = len(r_by_layer) /\ len(n_by_layer) = len(phi0_by_layer)

IsScenario48 ==
    /\ len(n_by_layer) = 2
    /\ n_by_layer[0] = 4 /\ n_by_layer[1] = 8
    /\ r_by_layer[0] = 10 /\ r_by_layer[1] = 20

IsScenarioSingle == len(n_by_layer) = 1 /\ n_by_layer[0] = 4 /\ r_by_layer[0] = 10

\* C1 (as claimed): in every constructed array, for every pair of point ids p
\* and q, q is in get_neighbours(p) if and only if p is in get_neighbours(q).
C1_NeighboursSymmetric ==
    pc = "built" =>
        \A p, q \in 0 .. n_points - 1 :
            (q \in get_neighbours(p).value) <=> (p \in get_neighbours(q).value)

\* C2 (as claimed): for equal-length sequences, positive point counts and
\* positive radii (two layers may share a radius), every point id maps to one
\* (layer, index) pair and back through get_layer, get_index and point_lookup.
C2_RoundTripAnyRadii ==
    (/\ pc = "built"
     /\ EqualLengths
     /\ \A l \in Layers : n_by_layer[l] > 0 /\ r_by_layer[l] > 0)
    => /\ \A p \in 0 .. n_points - 1 :
             /\ get_layer(p).raised = "none"
             /\ get_index(p).raised = "none"
             /\ point_lookup[<<get_layer(p).value, get_index(p).value>>] = p
       /\ \A l \in Layers : \A i \in 0 .. n_by_layer[l] - 1 :
             /\ get_layer(point_lookup[<<l, i>>]) = Return(l)
             /\ get_index(point_lookup[<<l, i>>]) = Return(i)

\* C2 (amended): the same round trip, for layer descriptions whose radii are
\* pairwise distinct.  (The cells of point_lookup are gone through in the
\* states between two calls, the ids as get_layer and get_index return.)
C2_RoundTripDistinctRadii ==
    (/\ pc = "built"
     /\ EqualLengths
     /\ DistinctRadii
     /\ \A l \in Layers : n_by_layer[l] > 0 /\ r_by_layer[l] > 0)
    => /\ call = NoCall =>
             \A l \in Layers : \A i \in 0 .. n_by_layer[l] - 1 :
                /\ get_layer(point_lookup[<<l, i>>]) = Return(l)
                /\ get_index(point_lookup[<<l, i>>]) = Return(i)
       /\ (call.op = "get_layer" /\ call.point_id \in 0 .. n_points - 1)
             => call.raised = "none" /\ call.result = LayerOfId(call.point_id)
       /\ (call.op = "get_index" /\ call.point_id \in 0 .. n_points - 1)
             => /\ call.raised = "none"
                /\ call.result = call.point_id - first_point[LayerOfId(call.point_id)]
                /\ point_lookup[<<get_layer(call.point_id).value, call.result>>]
                      = call.point_id

\* a get_index call has returned the index of a point that is not the first
\* of its layer, in a layer that is not the innermost, radii distinct
C2_Witness ==
    /\ pc = "built" /\ EqualLengths /\ DistinctRadii
    /\ \A l \in Layers : r_by_layer[l] > 0
    /\ call.op = "get_index" /\ call.raised = "none"
    /\ call.point_id \in 0 .. n_points - 1
    /\ call.result >= 1
    /\ LayerOfId(call.point_id) >= 1

C5_SingleLayerBuilds ==
    (IsScenarioSingle /\ pc # "new")
    => /\ pc = "built"
       /\ n_points = 4
       /\ \A p \in 0 .. 3 :
             get_neighbours(p) = Return({(p + 1) % 4, (p + 3) % 4})

\* C6: for every point p and every layer A next to p's layer, the cross-links
\* recorded from p into A (the neighbours of p that are points of A) are the
\* points of A with indices a-1, a, a+1 mod n_A, where
\* a = round((phi_p - phi0[A]) / (2 pi) * n_A) mod n_A is a point of A nearest
\* to p in angle; they are 3 distinct points when n_A >= 3; and for n=[4,8],
\* phi0=[0,0] the inner point at angle 0 is linked to outer 7, 0, 1.
C6_CrossLinks ==
    (/\ pc = "built"
     /\ call.op = "get_neighbours"
     /\ call.point_id \in 0 .. n_points - 1)
    => LET p == call.point_id
       IN  /\ call.raised = "none"
           /\ \A A \in {l \in Layers : l = LayerOfId(p) - 1 \/ l = LayerOfId(p) + 1} :
                LET n_A == n_by_layer[A]
                    x == Fl(point_phis[p] - phi0_by_layer[A]) * n_A
                    a == round(py_round, x, Turn) % n_A
                    links == {q \in call.neighs : LayerOfId(q) = A}
                IN  /\ links = {first_point[A] + ((a + d) % n_A) : d \in {-1, 0, 1}}
                    /\ links = {q \in 0 .. n_points - 1 :
                                   <<p, q>> \in point_neighbours /\ LayerOfId(q) = A}
                    /\ n_A >= 3 => Cardinality(links) = 3
                    /\ \A j \in 0 .. n_A - 1 :
                          ArcBetween(point_phis[p], point_phis[first_point[A] + a])
                             <= ArcBetween(point_phis[p], point_phis[first_point[A] + j])
           /\ (IsScenario48 /\ p = 0)
                 => {q \in call.neighs : LayerOfId(q) = 1} = {4 + 7, 4 + 0, 4 + 1}

\* get_neighbours has returned for a point of a layer of 2 whose nearest point
\* in an adjacent layer of 3 has index 0, found from a negative angle
\* difference, so that the three links wrap around the ring (indices 2, 0, 1)
C6_Witness ==
    /\ pc = "built"
    /\ call.op = "get_neighbours" /\ call.raised = "none"
    /\ call.point_id \in 0 .. n_points - 1
    /\ n_by_layer[LayerOfId(call.point_id)] = 2
    /\ \E A \in {l \in Layers : l = LayerOfId(call.point_id) - 1
                                \/ l = LayerOfId(call.point_id) + 1} :
          /\ n_by_layer[A] = 3
          /\ point_phis[call.point_id] - phi0_by_layer[A] < 0
          /\ {q \in call.neighs : LayerOfId(q) = A}
                = {first_point[A], first_point[A] + 1, first_point[A] + 2}
          /\ round(py_round, Fl(point_phis[call.point_id] - phi0_by_layer[A]) * 3, Turn) = 0

\* C7 (as claimed): construction fails whenever the three sequences do not
\* have one length, or a point count is zero or less, or a radius is not
\* positive.
C7_BadDescriptionFails ==
    (/\ pc # "new"
     /\ \/ ~EqualLengths
        \/ \E l \in Layers : n_by_layer[l] <= 0
        \/ \E l \in DOMAIN r_by_layer : r_by_layer[l] <= 0)
    => pc = "failed" /\ error # "none"

\* C8 (as claimed): every query given a point id outside [0, total_points)
\* raises and returns no result.
C8_OutOfRangeRaises ==
    (call.op # "none" /\ call.point_id \notin 0 .. n_points - 1)
    => call.raised # "none"

\* C9: with two or more layers, a point of the innermost or the outermost layer
\* has cross-layer neighbours in exactly one other layer, a point of an
\* interior layer in exactly two, and every neighbour of a point of layer l
\* lies in layer l-1, l or l+1.
C9_AdjacentLayersOnly ==
    (/\ pc = "built"
     /\ call.op = "get_neighbours"
     /\ call.point_id \in 0 .. n_points - 1)
    => LET l == LayerOfId(call.point_id)
           cross == {LayerOfId(q) : q \in call.neighs} \ {l}
       IN  /\ call.raised = "none"
           /\ len(n_by_layer) >= 2
           /\ (l = 0 \/ l = len(n_by_layer) - 1) => Cardinality(cross) = 1
           /\ (l # 0 /\ l # len(n_by_layer) - 1) => cross = {l - 1, l + 1}
           /\ \A q \in call.neighs : LayerOfId(q) \in {l - 1, l, l + 1}

\* built from three layers: an interior point with neighbours on both sides
C9_Witness ==
    /\ pc = "built"
    /\ len(n_by_layer) = 3
    /\ call.op = "get_neighbours" /\ call.raised = "none"
    /\ call.point_id \in 0 .. n_points - 1
    /\ LayerOfId(call.point_id) = 1
    /\ {LayerOfId(q) : q \in call.neighs} = {0, 1, 2}

\* the same-layer neighbours of p in the left-right graph: the columns of row p
LrRow(p) == {q \in 0 .. n_points - 1 : <<p, q>> \in lr_neighbours}

\* C10 (as claimed): every point has exactly 2 same-layer neighbours in the
\* left-right graph, whatever the size of its layer, 1 and 2 included.
C10_TwoRingNeighboursAnySize ==
    pc = "built" => \A p \in 0 .. n_points - 1 : Cardinality(LrRow(p)) = 2

\* C10 (amended): a point has exactly 2 same-layer neighbours in the
\* left-right graph when its layer has 3 points or more; in a layer of 2 its
\* only neighbour is the other point, in a layer of 1 it is the point itself.
\* (Stated of the left-right matrix as it stands between two calls.)
C10_TwoRingNeighboursFromThree ==
    (pc = "built" /\ call = NoCall) =>
        \A p \in 0 .. n_points - 1 :
            LET l == LayerOfId(p)
                n == n_by_layer[l]
                i == p - first_point[l]
            IN  /\ n >= 3 => /\ Cardinality(LrRow(p)) = 2
                             /\ LrRow(p) = {first_point[l] + ((i + 1) % n),
                                            first_point[l] + ((i + n - 1) % n)}
                /\ n = 2 => LrRow(p) = {first_point[l] + 1 - i}
                /\ n = 1 => LrRow(p) = {p}

\* built with a layer of one point, a layer of two and a layer of three
C10_Witness ==
    /\ pc = "built"
    /\ \E l1, l2, l3 \in Layers :
          n_by_layer[l1] = 1 /\ n_by_layer[l2] = 2 /\ n_by_layer[l3] = 3
    /\ \E p \in 0 .. n_points - 1 : Cardinality(LrRow(p)) = 2
    /\ \E p \in 0 .. n_points - 1 : LrRow(p) = {p}

\* C11: once the array is constructed, no call of get_neighbours,
\* get_points_rhos_and_phis, get_points_xs_and_ys, get_layer, get_index,
\* shift_wire or rotate_wire, with any arguments and whether it returns or
\* raises, changes the layer description or any stored table.
C11_QueriesLeaveTablesAlone ==
    [][pc = "built" =>
          UNCHANGED <<n_by_layer, r_by_layer, phi0_by_layer, first_point,
                      point_lookup, point_rhos, point_phis, point_x, point_y,
                      point_pol, point_dists, point_neighbours,
                      lr_neighbours>>]_vars

\* a shift by a non-zero number of points has returned, and the tables are
\* still the ones the constructor computed
C11_Witness ==
    /\ pc = "built"
    /\ call.op = "shift_wire" /\ call.raised = "none" /\ call.arg # 0
    /\ len(n_by_layer) > 1
    /\ first_point = _get_first_point
    /\ point_lookup = _prepare_points_lookup
    /\ point_dists = _prepare_point_distances
    /\ point_x = _prepare_point_cartesian.x_coor

\* C12 (as claimed): for every point of every constructed array the stored
\* angle is phi0[layer] + index * 2 pi / n[layer] reduced into [0, 2 pi), up to
\* the rounding of float arithmetic, for any phi0 (negative ones and ones above
\* 2 pi included); no stored angle is negative or 2 pi or more.
C12_AnglesReducedIntoTurn ==
    pc = "built" =>
        \A l \in Layers : \A i \in 0 .. n_by_layer[l] - 1 :
            LET stored == point_phis[first_point[l] + i]
                exact == (phi0_by_layer[l] + i * (Turn \div n_by_layer[l])) % Turn
            IN  /\ ArcBetween(stored, exact) < Ulp
                /\ 0 <= stored
                /\ stored < Turn

\* C13 (as claimed): CyDet, for either value of use_default_phis, hands the
\* engine a description of exactly 18 layers: 18 point counts 198 + 6k
\* (k = 0..17) that total 4482, 18 radii, and a phi0 table of 18 entries.
C13_CyDetEighteenLayers ==
    preset # "none" =>
        /\ len(n_by_layer) = 18
        /\ \A k \in 0 .. 17 : n_by_layer[k] = 198 + 6 * k
        /\ sum(n_by_layer) = 4482
        /\ len(r_by_layer) = 18
        /\ len(phi0_by_layer) = 18

\* C14: the left-right graph holds the ring links of each layer and nothing
\* else: in a layer of n >= 3 points row p of lr_neighbours is exactly the two
\* distinct points of indices (i + 1) mod n and (i - 1) mod n of p's layer;
\* every link of the graph is reciprocal, is also a link of the all-neighbours
\* graph, and joins two points of one layer.
\* (Stated of the matrices as they stand between two calls.)
C14_LrGraphIsTheRings ==
    (pc = "built" /\ call = NoCall) =>
        /\ \A p \in 0 .. n_points - 1 :
              LET l == LayerOfId(p)
                  n == n_by_layer[l]
                  i == p - first_point[l]
                  nxt == first_point[l] + ((i + 1) % n)
                  prv == first_point[l] + ((i - 1) % n)
              IN  n >= 3 => nxt # prv /\ LrRow(p) = {nxt, prv}
        /\ \A c \in lr_neighbours :
              /\ c[1] \in 0 .. n_points - 1
              /\ c[2] \in 0 .. n_points - 1
              /\ <<c[2], c[1]>> \in lr_neighbours
              /\ c \in point_neighbours
              /\ LayerOfId(c[1]) = LayerOfId(c[2])

\* an array of several layers, one of them of 3 points or more, whose
\* all-neighbours graph does hold links between layers
C14_Witness ==
    /\ pc = "built" /\ call = NoCall
    /\ \E p \in 0 .. n_points - 1 :
          /\ n_by_layer[LayerOfId(p)] >= 3
          /\ Cardinality(LrRow(p)) = 2
          /\ \E q \in 0 .. n_points - 1 :
                <<p, q>> \in point_neighbours /\ LayerOfId(q) # LayerOfId(p)

\* C15: point ids are handed out layer after layer: n_points is the sum of
\* n_by_layer, first_point[l] is the sum of the sizes of the layers before l,
\* point_lookup[l][i] = first_point[l] + i for every i < n_by_layer[l], each id
\* of 0 .. n_points - 1 stands in exactly one cell of point_lookup, and every
\* cell with i >= n_by_layer[l] holds -1.
\* (Stated of the tables as they stand between two calls.)
C15_IdsConcatenateLayers ==
    (pc = "built" /\ call = NoCall) =>
        LET last == len(n_by_layer) - 1
        IN  /\ n_points = first_point[last] + n_by_layer[last]
            /\ n_points = sum(n_by_layer)
            /\ first_point[0] = 0
            /\ \A l \in 1 .. last :
                  first_point[l] = first_point[l - 1] + n_by_layer[l - 1]
            /\ DOMAIN point_lookup = Layers \X (0 .. max(n_by_layer) - 1)
            /\ \A c \in DOMAIN point_lookup :
                  point_lookup[c] = IF c[2] < n_by_layer[c[1]]
                                    THEN first_point[c[1]] + c[2]
                                    ELSE -1
            /\ \A id \in 0 .. n_points - 1 :
                  Cardinality({c \in DOMAIN point_lookup : point_lookup[c] = id}) = 1

\* an array of layers of different sizes: the lookup table has padding cells,
\* and a layer after the first starts at a non-zero id
C15_Witness ==
    /\ pc = "built" /\ call = NoCall
    /\ \E c \in DOMAIN point_lookup : point_lookup[c] = -1
    /\ \E l \in DOMAIN first_point :
          l > 0 /\ first_point[l] > 0 /\ n_by_layer[l] > 1
             /\ point_lookup[<<l, 1>>] = first_point[l] + 1

\* C16: in an array whose radii are pairwise distinct, for every point id p of
\* 0 .. n_points - 1, every shift (of either sign, smaller or larger than the
\* layer) and every fraction, shift_wire and rotate_wire return an id of
\* 0 .. n_points - 1 that lies in the layer of p; they never return the -1 that
\* pads the lookup table.
C16_ShiftStaysInLayer ==
    (/\ pc = "built"
     /\ DistinctRadii
     /\ call.op \in {"shift_wire", "rotate_wire"}
     /\ call.point_id \in 0 .. n_points - 1)
    => /\ call.raised = "none"
       /\ call.result # -1
       /\ call.result \in 0 .. n_points - 1
       /\ LayerOfId(call.result) = LayerOfId(call.point_id)
       /\ get_layer(call.result) = get_layer(call.point_id)

\* a rotation by more than a full revolution, in a layer narrower than the
\* lookup table (its row has padding cells) that is not the first layer
C16_Witness ==
    /\ pc = "built"
    /\ DistinctRadii
    /\ call.op = "rotate_wire" /\ call.arg > FracDen
    /\ call.point_id \in 0 .. n_points - 1
    /\ LayerOfId(call.point_id) > 0
    /\ n_by_layer[LayerOfId(call.point_id)] < max(n_by_layer)
    /\ call.result # call.point_id
    /\ LayerOfId(call.result) = LayerOfId(call.point_id)


====
